---- MODULE Spec2Model ----
(***************************************************************************)
(* Model of src/src/Transformation.py (Leaffliction): the mask pipeline    *)
(* gaussian_blur, the roi consumer, process_image and the main driver.     *)
(*                                                                         *)
(* Four specifications share the module:                                   *)
(*   SpecRun  - main() over a file, a directory or an invalid path         *)
(*   SpecMask - one call of gaussian_blur(img, channel)                    *)
(*   SpecFill - pcv.fill_holes applied to a binary mask (lines 22, 95)     *)
(*   SpecRoi  - one call of roi(img, mask)                                 *)
(***************************************************************************)
EXTENDS Integers, Sequences, FiniteSets, TLC

VARIABLES
    input_kind,      \* what args.input is: "file", "dir" or "invalid"
    listing,         \* os.listdir(args.input) (or <<args.input>> for a file)
    transformation,  \* args.transformation
    pc,              \* position of the running function
    idx,             \* index in listing of the next file of the for loop
    outdir,          \* files of args.output: set of [name, content]
    calls,           \* one record per process_image call, in call order
    console,         \* messages printed so far
    img,             \* the image handed to gaussian_blur / roi
    channel,         \* the channel selector handed to gaussian_blur
    masks,           \* SpecFill / SpecRoi: the masks, input first
    result           \* what the function under study returned

vars == <<input_kind, listing, transformation, pc, idx, outdir, calls,
          console, img, channel, masks, result>>

None == "None"

(***************************************************************************)
(* Bounds                                                                  *)
(***************************************************************************)
MaxFiles == 2

NoRepeat(s) == \A i, j \in 1..Len(s) : i # j => s[i] # s[j]

(***************************************************************************)
(* File names are sequences of characters, so that lower() and endswith()  *)
(* are computed and not assumed.                                           *)
(***************************************************************************)
NamePool ==
    { <<"a", ".", "j", "p", "g">>,
      <<"b", ".", "P", "N", "G">>,
      <<"c", ".", "t", "x", "t">>,
      <<"d", "j", "p", "e", "g">>,
      <<"p", "n">> }

\* str.lower() on one character
LowerChar(c) ==
    CASE c = "P" -> "p"
      [] c = "N" -> "n"
      [] c = "G" -> "g"
      [] c = "J" -> "j"
      [] c = "E" -> "e"
      [] OTHER   -> c

lower(s) == [i \in 1..Len(s) |-> LowerChar(s[i])]

endswith(s, suf) ==
    /\ Len(suf) <= Len(s)
    /\ SubSeq(s, Len(s) - Len(suf) + 1, Len(s)) = suf

Suffixes == { <<"j", "p", "g">>, <<"j", "p", "e", "g">>, <<"p", "n", "g">> }

\* line 162: file.lower().endswith(("jpg", "jpeg", "png"))
Eligible(file) == \E suf \in Suffixes : endswith(lower(file), suf)

(***************************************************************************)
(* process_image                                                           *)
(***************************************************************************)
Transformations ==
    { "gaussian_blur", "mask_objects", "remove_black", "roi",
      "analyze_object", "create_pseudolandmarks", "analyze_color" }

\* variant of Stages: the result file is written before it is computed
StagesWriteFirst(t) ==
    <<"os.makedirs", "pcv.readimage">> \o
    CASE t = "gaussian_blur"  -> <<"pcv.print_image", "gaussian_blur">>
      [] t = "mask_objects"   -> <<"pcv.print_image", "gaussian_blur", "pcv.apply_mask">>
      [] t = "remove_black"   -> <<"pcv.print_image", "cv2.cvtColor", "cv2.threshold",
                                   "pcv.apply_mask">>
      [] t = "roi"            -> <<"pcv.print_image", "gaussian_blur", "roi">>
      [] t = "analyze_object" -> <<"pcv.print_image", "gaussian_blur", "pcv.analyze.size">>
      [] t = "create_pseudolandmarks" ->
             <<"pcv.print_image", "gaussian_blur", "create_pseudolandmarks_image">>
      [] t = "analyze_color"  -> <<"plt.savefig", "gaussian_blur", "pcv.analyze.color">>
      [] OTHER                -> <<"raise ValueError">>

\* variant of Stages: mask_objects thresholds the image itself
StagesOwnThreshold(t) ==
    <<"os.makedirs", "pcv.readimage">> \o
    CASE t = "gaussian_blur"  -> <<"gaussian_blur", "pcv.print_image">>
      [] t = "mask_objects"   -> <<"cv2.cvtColor", "cv2.threshold", "pcv.apply_mask",
                                   "pcv.print_image">>
      [] t = "remove_black"   -> <<"cv2.cvtColor", "cv2.threshold", "pcv.apply_mask",
                                   "pcv.print_image">>
      [] t = "roi"            -> <<"gaussian_blur", "roi", "pcv.print_image">>
      [] t = "analyze_object" -> <<"gaussian_blur", "pcv.analyze.size", "pcv.print_image">>
      [] t = "create_pseudolandmarks" ->
             <<"gaussian_blur", "create_pseudolandmarks_image", "pcv.print_image">>
      [] t = "analyze_color"  -> <<"gaussian_blur", "pcv.analyze.color", "plt.savefig">>
      [] OTHER                -> <<"raise ValueError">>

\* the calls process_image makes for a transformation, in program order;
\* the calls of remove_black (lines 34-36) are listed one by one
Stages(t) ==
    <<"os.makedirs", "pcv.readimage">> \o
    CASE t = "gaussian_blur"  -> <<"gaussian_blur", "pcv.print_image">>
      [] t = "mask_objects"   -> <<"gaussian_blur", "pcv.apply_mask", "pcv.print_image">>
      [] t = "remove_black"   -> <<"cv2.cvtColor", "cv2.threshold", "pcv.apply_mask",
                                   "pcv.print_image">>
      [] t = "roi"            -> <<"gaussian_blur", "roi", "pcv.print_image">>
      [] t = "analyze_object" -> <<"gaussian_blur", "pcv.analyze.size", "pcv.print_image">>
      [] t = "create_pseudolandmarks" ->
             <<"gaussian_blur", "create_pseudolandmarks_image", "pcv.print_image">>
      [] t = "analyze_color"  -> <<"gaussian_blur", "pcv.analyze.color", "plt.savefig">>
      [] OTHER                -> <<"raise ValueError">>

\* the calls that write a file into output_dir (lines 79 and 129)
WriteStages == {"pcv.print_image", "plt.savefig"}

\* variant of ArtifactName: one file per input image
ArtifactNamePerImage(t, img_path) ==
    IF t = "analyze_color" THEN <<"color_histogram", img_path, ".png">>
    ELSE <<t, img_path, ".png">>

\* lines 79 and 129: the file name inside output_dir
ArtifactName(t, img_path) ==
    IF t = "analyze_color" THEN <<"color_histogram.png">> ELSE <<t, ".png">>

\* writing a file replaces the file of the same name
WriteFile(dir, name, content) ==
    {f \in dir : f.name # name} \cup {[name |-> name, content |-> content]}

\* the messages of the except clauses a failure in stage s passes through
ErrorMessages(s) ==
    (IF s = "gaussian_blur" THEN <<"Error in gaussian_blur">>
     ELSE IF s \in {"pcv.analyze.color", "plt.savefig"}
          THEN <<"Error in analyze_color">>
     ELSE <<>>) \o <<"Error processing image">>

\* lines 124 and 130 (the second message also names t and the directory)
SuccessMessage(t) ==
    IF t = "analyze_color" THEN "Color analysis saved." ELSE "result saved"

\* process_image(img_path, output_dir, transformation), where failAt is the
\* index of the stage that raises (0: none does).  The stages before it have
\* run, the stages after it have not.
process_image(img_path, dir, t, failAt) ==
    LET stages == Stages(t)
        failed == failAt # 0 \/ stages[Len(stages)] = "raise ValueError"
        stop   == IF failAt # 0 THEN failAt ELSE Len(stages)
        trace  == IF failed THEN SubSeq(stages, 1, stop - 1) ELSE stages
        wrote  == \E i \in 1..Len(trace) : trace[i] \in WriteStages
    IN  [ file    |-> img_path,
          status  |-> IF failed THEN "error" ELSE "ok",
          trace   |-> trace,
          wrote   |-> wrote,
          outdir  |-> IF wrote
                      THEN WriteFile(dir, ArtifactName(t, img_path),
                                     <<t, img_path>>)
                      ELSE dir,
          printed |-> IF failed THEN ErrorMessages(stages[stop])
                      ELSE <<SuccessMessage(t)>> ]

\* the stages of t at which a call can raise
FailPoints(t) == 0..Len(Stages(t))

(***************************************************************************)
(* main                                                                    *)
(***************************************************************************)
Listings ==
    {s \in UNION {[1..n -> NamePool] : n \in 0..MaxFiles} : NoRepeat(s)}

InitRun ==
    /\ input_kind \in {"file", "dir", "invalid"}
    /\ listing \in Listings
    /\ input_kind = "file" => Len(listing) = 1
    /\ input_kind = "invalid" => listing = <<>>
    /\ transformation \in Transformations
    /\ pc = "main"
    /\ idx = 1
    /\ outdir = {}
    /\ calls = <<>>
    /\ console = <<>>
    /\ img = None /\ channel = None /\ masks = <<>> /\ result = None

NotRun == UNCHANGED <<img, channel, masks, result>>

\* one call of process_image from main: an exception ends main
Call(img_path, failAt, next_pc) ==
    LET r == process_image(img_path, outdir, transformation, failAt)
    IN  /\ calls' = Append(calls, [file |-> r.file, status |-> r.status,
                                   trace |-> r.trace, wrote |-> r.wrote])
        /\ outdir' = r.outdir
        /\ console' = console \o r.printed
        /\ pc' = IF r.status = "ok" THEN next_pc ELSE "raised"

\* lines 158-159: args.input is a file
MainFile ==
    /\ pc = "main" /\ input_kind = "file"
    /\ \E failAt \in FailPoints(transformation) :
           Call(listing[1], failAt, "done")
    /\ UNCHANGED <<input_kind, listing, transformation, idx>>
    /\ NotRun

\* lines 161-162: a listed file whose name has none of the suffixes
MainDirSkip ==
    /\ pc = "main" /\ input_kind = "dir"
    /\ idx <= Len(listing)
    /\ ~Eligible(listing[idx])
    /\ idx' = idx + 1
    /\ UNCHANGED <<input_kind, listing, transformation, pc, outdir, calls,
                   console>>
    /\ NotRun

\* lines 161-163: a listed file with one of the suffixes is processed
MainDirProcess ==
    /\ pc = "main" /\ input_kind = "dir"
    /\ idx <= Len(listing)
    /\ Eligible(listing[idx])
    /\ \E failAt \in FailPoints(transformation) :
           Call(listing[idx], failAt, "main")
    /\ idx' = idx + 1
    /\ UNCHANGED <<input_kind, listing, transformation>>
    /\ NotRun

\* line 161: the for loop is exhausted
MainDirEnd ==
    /\ pc = "main" /\ input_kind = "dir"
    /\ idx > Len(listing)
    /\ pc' = "done"
    /\ UNCHANGED <<input_kind, listing, transformation, idx, outdir, calls,
                   console>>
    /\ NotRun

\* lines 164-165
MainInvalid ==
    /\ pc = "main" /\ input_kind = "invalid"
    /\ console' = Append(console, "Invalid input path. Provide an image or directory.")
    /\ pc' = "done"
    /\ UNCHANGED <<input_kind, listing, transformation, idx, outdir, calls>>
    /\ NotRun

NextRun ==
    \/ MainFile
    \/ MainDirSkip
    \/ MainDirProcess
    \/ MainDirEnd
    \/ MainInvalid

SpecRun == InitRun /\ [][NextRun]_vars

(***************************************************************************)
(* The mask pipeline: gaussian_blur (lines 10-26)                          *)
(***************************************************************************)
GrayW == 2
GrayH == 1
MaxGray == 3

\* mask values: cv2.threshold is called with maxval 255
FOREGROUND == 255
BACKGROUND == 0

Grid(w, h) == (0..(w - 1)) \X (0..(h - 1))     \* cells are <<column, row>>

GrayCells == Grid(GrayW, GrayH)

\* the selectors tried: the ten of lines 13-17 and some that are not
Channels ==
    {"l", "a", "b", "h", "s", "v", "c", "m", "y", "k", "z", "L", ""}

\* variant of Family: an unknown selector falls back to Lab
FamilyFallback(ch) ==
    IF ch \in {"h", "s", "v"} THEN "pcv.rgb2gray_hsv"
    ELSE IF ch \in {"c", "m", "y", "k"} THEN "pcv.rgb2gray_cmyk"
    ELSE "pcv.rgb2gray_lab"

\* lines 13-20: the conversion a selector dispatches to
Family(ch) ==
    IF ch \in {"l", "a", "b"} THEN "pcv.rgb2gray_lab"
    ELSE IF ch \in {"h", "s", "v"} THEN "pcv.rgb2gray_hsv"
    ELSE IF ch \in {"c", "m", "y", "k"} THEN "pcv.rgb2gray_cmyk"
    ELSE "ValueError"

\* cv2's Otsu threshold of a buffer with levels 0..MaxGray: the level i that
\* maximises the between-class variance q1*q2*(mu1-mu2)^2 of the classes
\* {<= i} and {> i}; a level leaving a class empty is skipped; the first
\* level with a strictly larger variance wins; 0 when no level qualifies.
\* With n1, n2 the class sizes and s1, s2 the class sums the variance is
\* (s1*n2 - s2*n1)^2 / (n1*n2) up to the constant factor 1/n^4, kept here as
\* the fraction num/den.
RECURSIVE SumOver(_, _)
SumOver(f, S) ==
    IF S = {} THEN 0
    ELSE LET x == CHOOSE y \in S : TRUE IN f[x] + SumOver(f, S \ {x})

RECURSIVE OtsuScan(_, _, _, _)
OtsuScan(gray, cells, i, best) ==
    IF i > MaxGray THEN best.val
    ELSE LET low  == {c \in cells : gray[c] <= i}
             high == cells \ low
             n1   == Cardinality(low)
             n2   == Cardinality(high)
             d    == SumOver(gray, low) * n2 - SumOver(gray, high) * n1
             num  == d * d
             den  == n1 * n2
         IN  IF n1 = 0 \/ n2 = 0 THEN OtsuScan(gray, cells, i + 1, best)
             ELSE IF num * best.den > best.num * den
                  THEN OtsuScan(gray, cells, i + 1,
                                [val |-> i, num |-> num, den |-> den])
             ELSE OtsuScan(gray, cells, i + 1, best)

OtsuThreshold(gray) ==
    OtsuScan(gray, DOMAIN gray, 0, [val |-> 0, num |-> 0, den |-> 1])

\* variant of ThreshBinary: a pixel equal to the threshold is foreground
ThreshBinaryGe(gray, t) ==
    [c \in DOMAIN gray |-> IF gray[c] >= t THEN FOREGROUND ELSE BACKGROUND]

\* cv2.THRESH_BINARY: a pixel above the threshold gets maxval, the others 0
ThreshBinary(gray, t) ==
    [c \in DOMAIN gray |-> IF gray[c] > t THEN FOREGROUND ELSE BACKGROUND]

\* line 21: pcv.threshold.otsu(gray_img, object_type="light")
otsu(gray) == ThreshBinary(gray, OtsuThreshold(gray))

\* the cells of a mask that lie on the border of the grid
OnBorder(cells, c) ==
    \/ <<c[1] - 1, c[2]>> \notin cells \/ <<c[1] + 1, c[2]>> \notin cells
    \/ <<c[1], c[2] - 1>> \notin cells \/ <<c[1], c[2] + 1>> \notin cells

N4(c) == { <<c[1] - 1, c[2]>>, <<c[1] + 1, c[2]>>,
           <<c[1], c[2] - 1>>, <<c[1], c[2] + 1>> }

\* binary dilation of `reached` inside the background `bg`, the outside of
\* the grid counting as set, repeated until nothing changes
RECURSIVE Dilate(_, _, _)
Dilate(cells, bg, reached) ==
    LET next == {c \in bg : \/ c \in reached
                            \/ OnBorder(cells, c)
                            \/ N4(c) \cap reached # {}}
    IN  IF next = reached THEN reached ELSE Dilate(cells, bg, next)

\* variant of fill_holes: the holes alone are returned
fill_holes_only(bin_img) ==
    LET cells == DOMAIN bin_img
        bg    == {c \in cells : bin_img[c] = BACKGROUND}
        out   == Dilate(cells, bg, {})
    IN  [c \in cells |-> IF c \in bg \ out THEN FOREGROUND ELSE BACKGROUND]

\* variant of fill_holes: the final negation is forgotten
fill_holes_inverted(bin_img) ==
    LET cells == DOMAIN bin_img
        bg    == {c \in cells : bin_img[c] = BACKGROUND}
        out   == Dilate(cells, bg, {})
    IN  [c \in cells |-> IF c \in out THEN FOREGROUND ELSE BACKGROUND]

\* variant of fill_holes: the background is grown by one step only
fill_holes_one_pass(bin_img) ==
    LET cells == DOMAIN bin_img
        bg    == {c \in cells : bin_img[c] = BACKGROUND}
        out   == {c \in bg : OnBorder(cells, c)}
    IN  [c \in cells |-> IF c \in out THEN BACKGROUND ELSE FOREGROUND]

\* lines 22 and 95: pcv.fill_holes, which is
\* scipy.ndimage.binary_fill_holes with its default structuring element:
\* the background is grown from outside the image through 4-neighbours, and
\* every cell that growth does not reach is foreground in the result
fill_holes(bin_img) ==
    LET cells == DOMAIN bin_img
        bg    == {c \in cells : bin_img[c] = BACKGROUND}
        out   == Dilate(cells, bg, {})
    IN  [c \in cells |-> IF c \in out THEN BACKGROUND ELSE FOREGROUND]

\* gaussian_blur(img, channel): img.valid says whether the conversion accepts
\* the image, img.plane is the single-channel buffer that converting img and
\* taking the channel yields (the colour arithmetic is the library's: every
\* buffer is a possible outcome).  trace lists the library calls started.
gaussian_blur(image, ch) ==
    LET conv == Family(ch)
    IN  IF conv = "ValueError"
        THEN [ status  |-> "ValueError: Invalid channel specified.",
               value   |-> None,
               trace   |-> <<>>,
               printed |-> <<"Error in gaussian_blur: Invalid channel specified.">> ]
        ELSE IF ~image.valid
        THEN [ status  |-> "RuntimeError",
               value   |-> None,
               trace   |-> <<conv>>,
               printed |-> <<"Error in gaussian_blur: RuntimeError">> ]
        ELSE LET a_gray       == image.plane
                 bin_mask     == otsu(a_gray)
                 cleaned_mask == fill_holes(bin_mask)
             IN  [ status  |-> "ok",
                   value   |-> cleaned_mask,
                   trace   |-> <<conv, "pcv.threshold.otsu", "pcv.fill_holes">>,
                   printed |-> <<>> ]

InitMask ==
    /\ img \in [valid : BOOLEAN, plane : [GrayCells -> 0..MaxGray]]
    /\ channel \in Channels
    /\ pc = "call"
    /\ result = None
    /\ console = <<>>
    /\ input_kind = None /\ listing = <<>> /\ transformation = None
    /\ idx = 0 /\ outdir = {} /\ calls = <<>> /\ masks = <<>>

\* one call gaussian_blur(img, channel), to its return or its exception
GaussianBlur ==
    /\ pc = "call"
    /\ LET r == gaussian_blur(img, channel)
       IN  /\ result' = [status |-> r.status, value |-> r.value,
                         trace |-> r.trace]
           /\ console' = console \o r.printed
           /\ pc' = IF r.status = "ok" THEN "returned" ELSE "raised"
    /\ UNCHANGED <<input_kind, listing, transformation, idx, outdir, calls,
                   img, channel, masks>>

NextMask == GaussianBlur

SpecMask == InitMask /\ [][NextMask]_vars

(***************************************************************************)
(* pcv.fill_holes on its own (lines 22 and 95)                             *)
(***************************************************************************)
MaskW == 3
MaskH == 3

MaskCells == Grid(MaskW, MaskH)

InitFill ==
    /\ \E m \in [MaskCells -> {BACKGROUND, FOREGROUND}] : masks = <<m>>
    /\ pc = "fill"
    /\ input_kind = None /\ listing = <<>> /\ transformation = None
    /\ idx = 0 /\ outdir = {} /\ calls = <<>> /\ console = <<>>
    /\ img = None /\ channel = None /\ result = None

\* pcv.fill_holes applied to the latest mask; masks keeps the input, the
\* filled mask and the filled mask filled again
FillHoles ==
    /\ pc = "fill"
    /\ masks' = Append(masks, fill_holes(masks[Len(masks)]))
    /\ pc' = IF Len(masks) = 1 THEN "fill" ELSE "done"
    /\ UNCHANGED <<input_kind, listing, transformation, idx, outdir, calls,
                   console, img, channel, result>>

NextFill == FillHoles

SpecFill == InitFill /\ [][NextFill]_vars

(***************************************************************************)
(* roi (lines 39-43)                                                       *)
(***************************************************************************)
RoiW == 4
RoiH == 3

RoiCells == Grid(RoiW, RoiH)

\* line 41: the colour the cells of the mask get
HighlightColor == <<0, 255, 0>>

\* line 43: the colour and the thickness of the rectangle
RectColor == <<255, 0, 0>>
RectThickness == 2

LeafColor == <<40, 120, 60>>
SoilColor == <<90, 60, 30>>

\* the input images: plain ones and a chequered one
RoiImages ==
    { [c \in RoiCells |-> LeafColor],
      [c \in RoiCells |-> SoilColor],
      [c \in RoiCells |-> IF (c[1] + c[2]) % 2 = 0 THEN LeafColor
                           ELSE SoilColor] }

Min(S) == CHOOSE x \in S : \A y \in S : x <= y
Max(S) == CHOOSE x \in S : \A y \in S : x >= y

\* cv2.boundingRect(mask): x, y, w, h of the smallest upright rectangle
\* holding every non-zero cell; all zero for a mask without one
boundingRect(mask) ==
    LET nz   == {c \in DOMAIN mask : mask[c] # 0}
        cols == {c[1] : c \in nz}
        rows == {c[2] : c \in nz}
    IN  IF nz = {} THEN [x |-> 0, y |-> 0, w |-> 0, h |-> 0]
        ELSE [x |-> Min(cols), y |-> Min(rows),
              w |-> Max(cols) - Min(cols) + 1,
              h |-> Max(rows) - Min(rows) + 1]

Between(a, v, b) == (a <= v /\ v <= b) \/ (b <= v /\ v <= a)

Abs(n) == IF n < 0 THEN -n ELSE n

\* cv2.rectangle(img, pt1, pt2, color, thickness): the four edges are drawn
\* as lines of the given thickness.  A line of thickness t > 1 fills the
\* segment widened by t \div 2 cells on both sides, and a disc of that radius
\* on its end point; the image clips what falls outside.
OnThickLine(c, p0, p1, half) ==
    \/ /\ p0 # p1
       /\ IF p0[2] = p1[2]
          THEN Between(p0[1], c[1], p1[1]) /\ Abs(c[2] - p0[2]) <= half
          ELSE Between(p0[2], c[2], p1[2]) /\ Abs(c[1] - p0[1]) <= half
    \/ Abs(c[1] - p1[1]) + Abs(c[2] - p1[2]) <= half

rectangle(image, pt1, pt2, color, thickness) ==
    LET half  == thickness \div 2
        a     == pt1
        b     == <<pt2[1], pt1[2]>>
        cc    == pt2
        d     == <<pt1[1], pt2[2]>>
        drawn(c) == \/ OnThickLine(c, a, b, half)
                    \/ OnThickLine(c, b, cc, half)
                    \/ OnThickLine(c, cc, d, half)
                    \/ OnThickLine(c, d, a, half)
    IN  [c \in DOMAIN image |-> IF drawn(c) THEN color ELSE image[c]]

\* roi(img, mask): the returned image, the two corners handed to
\* cv2.rectangle, and the caller's image after the call
roi(image, mask) ==
    LET roi_image   == image
        highlighted == [c \in DOMAIN roi_image |->
                           IF mask[c] # 0 THEN HighlightColor
                           ELSE roi_image[c]]
        r   == boundingRect(mask)
        pt1 == <<r.x, r.y>>
        pt2 == <<r.x + r.w, r.y + r.h>>
    IN  [ image |-> rectangle(highlighted, pt1, pt2, RectColor, RectThickness),
          pt1   |-> pt1,
          pt2   |-> pt2,
          input |-> image ]

InitRoi ==
    /\ img \in RoiImages
    /\ \E m \in [RoiCells -> {BACKGROUND, FOREGROUND}] : masks = <<m>>
    /\ pc = "call"
    /\ result = None
    /\ input_kind = None /\ listing = <<>> /\ transformation = None
    /\ idx = 0 /\ outdir = {} /\ calls = <<>> /\ console = <<>>
    /\ channel = None

\* one call roi(img, mask)
Roi ==
    /\ pc = "call"
    /\ LET r == roi(img, masks[1])
       IN  /\ result' = [image |-> r.image, pt1 |-> r.pt1, pt2 |-> r.pt2]
           /\ img' = r.input
    /\ pc' = "returned"
    /\ UNCHANGED <<input_kind, listing, transformation, idx, outdir, calls,
                   console, channel, masks>>

NextRoi == Roi

SpecRoi == InitRoi /\ [][NextRoi]_vars

(***************************************************************************)
(* Properties                                                              *)
(***************************************************************************)
Range(s) == {s[i] : i \in 1..Len(s)}

Attempted == {calls[k].file : k \in 1..Len(calls)}

OkCalls == {k \in 1..Len(calls) : calls[k].status = "ok"}

MainEnded == pc \in {"done", "raised"}

\* C1: in a directory run a failure of process_image on one image is
\* reported and every other eligible image of the directory is still
\* processed: when main has ended, each eligible listed file was handed to
\* process_image.
C1_SiblingsStillProcessed ==
    (input_kind = "dir" /\ MainEnded) =>
        /\ \A i \in 1..Len(listing) :
               Eligible(listing[i]) => listing[i] \in Attempted
        /\ \A k \in 1..Len(calls) :
               calls[k].status = "error" =>
                   "Error processing image" \in Range(console)

RecognisedChannels == {"l", "a", "b", "h", "s", "v", "c", "m", "y", "k"}

\* C3: gaussian_blur with a selector outside the ten recognised codes raises
\* the invalid-channel error before any conversion, thresholding or
\* hole-filling call is made, and returns no mask.
C3_InvalidChannelRaisesFirst ==
    (pc # "call" /\ channel \notin RecognisedChannels) =>
        /\ pc = "raised"
        /\ result.status = "ValueError: Invalid channel specified."
        /\ result.trace = <<>>
        /\ result.value = None

C3_Witness ==
    /\ pc = "raised" /\ channel = "z" /\ img.valid
    /\ result.status = "ValueError: Invalid channel specified."

\* the eight neighbours of a cell
N8(c) == { <<c[1] + dx, c[2] + dy>> : dx \in {-1, 0, 1}, dy \in {-1, 0, 1} }
         \ {c}

\* the connected component of cell c inside the set bg, under 4- or
\* 8-connectivity
RECURSIVE Grow(_, _, _)
Grow(bg, S, conn) ==
    LET next == S \cup {c \in bg :
                    (IF conn = 8 THEN N8(c) ELSE N4(c)) \cap S # {}}
    IN  IF next = S THEN S ELSE Grow(bg, next, conn)

Background(m) == {c \in DOMAIN m : m[c] = BACKGROUND}

\* c is a background cell whose component does not touch the border
IsHole(m, c, conn) ==
    /\ m[c] = BACKGROUND
    /\ \A d \in Grow(Background(m), {c}, conn) : ~OnBorder(DOMAIN m, d)

FilledAs(conn) ==
    Len(masks) >= 2 =>
        \A c \in DOMAIN masks[1] :
            masks[2][c] =
                IF masks[1][c] = FOREGROUND \/ IsHole(masks[1], c, conn)
                THEN FOREGROUND ELSE BACKGROUND

\* C4 as stated: fill_holes turns into FOREGROUND exactly the cells of the
\* BACKGROUND components, under 8-connectivity, that do not touch the
\* border, and leaves the other cells as they are.
C4_FillsEightConnectedHoles == FilledAs(8)

\* C4 amended: fill_holes turns into FOREGROUND exactly the cells of the
\* BACKGROUND components, under 4-connectivity, that do not touch the
\* border, and leaves the other cells as they are.
C4_FillsFourConnectedHoles == FilledAs(4)

\* an interior background pixel closed in by its four neighbours is filled,
\* while background that touches the border stays background
C4_Witness ==
    /\ Len(masks) >= 2
    /\ \E c \in DOMAIN masks[1] :
           /\ ~OnBorder(DOMAIN masks[1], c)
           /\ masks[1][c] = BACKGROUND
           /\ \A n \in N4(c) : masks[1][n] = FOREGROUND
           /\ masks[2][c] = FOREGROUND
    /\ \E d \in DOMAIN masks[1] :
           /\ OnBorder(DOMAIN masks[1], d)
           /\ masks[1][d] = BACKGROUND
           /\ masks[2][d] = BACKGROUND

\* C5: every cell that is FOREGROUND in the input of fill_holes is
\* FOREGROUND in its output.
C5_FillKeepsForeground ==
    Len(masks) >= 2 =>
        \A c \in DOMAIN masks[1] :
            masks[1][c] = FOREGROUND => masks[2][c] = FOREGROUND

C5_Witness ==
    /\ Len(masks) >= 2
    /\ \E c \in DOMAIN masks[1] : masks[1][c] = FOREGROUND
    /\ \E c \in DOMAIN masks[1] :
           masks[1][c] = BACKGROUND /\ masks[2][c] = FOREGROUND
    /\ \E c \in DOMAIN masks[1] : masks[2][c] = BACKGROUND

\* C6: filling the holes of a filled mask changes nothing:
\* fill_holes(fill_holes(m)) = fill_holes(m).
C6_FillIdempotent ==
    Len(masks) = 3 => masks[3] = masks[2]

C6_Witness ==
    /\ Len(masks) = 3
    /\ masks[2] # masks[1]
    /\ \E c \in DOMAIN masks[2] : masks[2][c] = BACKGROUND

Uniform(gray) == \A c, d \in DOMAIN gray : gray[c] = gray[d]

UniformCall ==
    /\ pc # "call"
    /\ channel \in RecognisedChannels
    /\ img.valid
    /\ Uniform(img.plane)

\* C7 as stated: for an image whose projected buffer is uniform, whatever
\* its intensity, the call returns without error a mask whose cells are all
\* BACKGROUND.
C7_UniformAllBackground ==
    UniformCall =>
        /\ pc = "returned"
        /\ \A c \in DOMAIN result.value : result.value[c] = BACKGROUND

\* C7 amended: for an image whose projected buffer is uniform the call
\* returns without error; the mask is all BACKGROUND when the intensity is
\* 0 and all FOREGROUND when the intensity is above 0.
C7_UniformByLevel ==
    UniformCall =>
        /\ pc = "returned"
        /\ \A c \in DOMAIN result.value :
               result.value[c] =
                   IF img.plane[c] = 0 THEN BACKGROUND ELSE FOREGROUND

C7_Witness ==
    /\ UniformCall
    /\ \A c \in DOMAIN img.plane : img.plane[c] = MaxGray
    /\ pc = "returned"
    /\ \A c \in DOMAIN result.value : result.value[c] = FOREGROUND

ForegroundOf(m) == {c \in DOMAIN m : m[c] # 0}

\* C8: for a mask with a FOREGROUND cell, the corners of the rectangle roi
\* draws are the smallest and the largest column and row holding a
\* FOREGROUND cell, the rectangle is drawn on a copy (the input image is
\* unchanged), and the FOREGROUND cells were recoloured to the highlight
\* colour on that copy (so a cell not under the rectangle shows it).
C8_RectangleIsMinimal ==
    (pc = "returned" /\ ForegroundOf(masks[1]) # {}) =>
        LET fg == ForegroundOf(masks[1])
        IN  /\ result.pt1 = << Min({c[1] : c \in fg}), Min({c[2] : c \in fg}) >>
            /\ result.pt2 = << Max({c[1] : c \in fg}), Max({c[2] : c \in fg}) >>
            /\ \A c \in fg : result.image[c] \in {HighlightColor, RectColor}
            /\ img \in RoiImages

ThresholdsItself(k) == "cv2.threshold" \in Range(calls[k].trace)

UsesPipeline(k) == "gaussian_blur" \in Range(calls[k].trace)

\* C9 as stated: in every run of process_image the mask comes from
\* gaussian_blur: no transformation thresholds the image itself.
C9_NoOwnThreshold ==
    \A k \in 1..Len(calls) :
        /\ ~ThresholdsItself(k)
        /\ calls[k].status = "ok" => UsesPipeline(k)

\* C9 amended: every transformation but remove_black takes its mask from
\* gaussian_blur, once, before its consumer and thresholds nothing itself;
\* remove_black thresholds the image itself and never calls gaussian_blur.
C9_OnlyRemoveBlackThresholds ==
    \A k \in 1..Len(calls) :
        LET tr == calls[k].trace
        IN  IF transformation = "remove_black"
            THEN /\ ~UsesPipeline(k)
                 /\ calls[k].status = "ok" => ThresholdsItself(k)
            ELSE /\ ~ThresholdsItself(k)
                 /\ Len(tr) >= 3 => tr[3] = "gaussian_blur"
                 /\ Cardinality({i \in 1..Len(tr) : tr[i] = "gaussian_blur"}) <= 1
                 /\ calls[k].status = "ok" => UsesPipeline(k)

C9_Witness ==
    /\ transformation = "roi"
    /\ \E k \in OkCalls :
           calls[k].trace[3] = "gaussian_blur" /\ calls[k].trace[4] = "roi"

\* C10: the name of the output file does not depend on the input image:
\* once a directory run has processed one or more images without error the
\* output directory holds exactly one file, and its content is the result
\* of the last image processed.
C10_OneArtifactOfLastImage ==
    (input_kind = "dir" /\ OkCalls # {}) =>
        /\ Cardinality(outdir) = 1
        /\ \A f \in outdir :
               f.content = <<transformation, calls[Max(OkCalls)].file>>

C10_Witness ==
    /\ input_kind = "dir"
    /\ Cardinality(OkCalls) >= 2
    /\ Cardinality(outdir) = 1

====
